---- MODULE Spec2Model ----
(***************************************************************************)
(* K-armed bandits notebook (3.8.1_k_armed_bandits_in_action.ipynb):       *)
(* one SlotMachineEnvironment and one agent (RandomAgent,                  *)
(* EpsilonGreedyAgent or ThompsonSamplingAgent) whose step() method is     *)
(* called, iterates its loop and returns.                                  *)
(*                                                                         *)
(* Probabilities, epsilon and the uniform and beta samples are multiples   *)
(* of 1/ProbScale.  Quotients (q-values, averages) are exact fractions in  *)
(* lowest terms, so two of them are equal exactly when the quotients are.  *)
(* Python lists indexed by arm are functions on 0..k-1; lists that are     *)
(* appended to are sequences.                                              *)
(***************************************************************************)
EXTENDS Integers, Sequences, FiniteSets

VARIABLES
    environment,              \* the SlotMachineEnvironment instance
    rewards,                  \* the module-level list `rewards`
    agent,                    \* the agent instance: kind, steps, epsilon
    pc,                       \* "idle", "running", "returned" or "raised"
    calls,                    \* number of step() calls made on the instance
    iteration,                \* loop iterations of the current call begun
    pulled,                   \* arm_to_pull of each iteration of the call
    count_of_arms_pulled,     \* local of step(), per arm
    q_values,                 \* local of EpsilonGreedyAgent.step, per arm
    rewards_obtained_per_arm, \* local of EpsilonGreedyAgent.step, per arm
    rewards_obtained,         \* RandomAgent: list; ThompsonSamplingAgent: per arm
    failures,                 \* local of ThompsonSamplingAgent.step, per arm
    reward_list,              \* EpsilonGreedyAgent's local `rewards`,
                              \* ThompsonSamplingAgent's `total_rewards`
    cumulative_rewards,       \* local of step(), list
    result,                   \* the value the last completed call returned
    peer                      \* the run of a second agent bound to the same
                              \* environment, NoPeer where there is none

vars == <<environment, rewards, agent, pc, calls, iteration, pulled,
          count_of_arms_pulled, q_values, rewards_obtained_per_arm,
          rewards_obtained, failures, reward_list, cumulative_rewards, result,
          peer>>

\* the first agent: the instance and the state of its step() call
run == <<agent, pc, calls, iteration, pulled, count_of_arms_pulled, q_values,
         rewards_obtained_per_arm, rewards_obtained, failures, reward_list,
         cumulative_rewards, result>>

locals == <<iteration, pulled, count_of_arms_pulled, q_values,
            rewards_obtained_per_arm, rewards_obtained, failures,
            reward_list, cumulative_rewards>>

----------------------------------------------------------------------------
(* Bounds of the model *)

\* probabilities and samples are multiples of 1/ProbScale
ProbScale == 2

\* largest step budget an agent is constructed with
MaxSteps == 5

\* number of step() calls made on one agent instance
MaxCalls == 2

\* step budget of each of two agents that run interleaved
PairSteps == 2

One == ProbScale
Half == ProbScale \div 2

\* the values np.random.random() returns: [0, 1)
UniformSamples == 0..(ProbScale - 1)

\* the values random.betavariate returns: 0.0 included (its `return 0.0`)
BetaSamples == 0..ProbScale

\* arguments the constructors are called with
ProbabilityInputs == {<<One, 0>>, <<Half, One>>, <<Half>>, <<One + 1>>}
RewardInputs == {<<10, 10>>, <<91, 10>>, <<90>>}
ModuleRewardInputs == {<<91, 10>>, <<90>>}
StepInputs == (-1)..MaxSteps
EpsilonInputs == {0, Half, One}

\* a local that the running call has not created
Unallocated == <<>>

----------------------------------------------------------------------------
(* Values *)

\* a Python list as a function on 0..len-1
Vec(s) == [i \in 0..(Len(s) - 1) |-> s[i + 1]]

\* len() of such a list
VecLen(v) == Cardinality(DOMAIN v)

\* np.zeros(k)
Zeros(k) == [i \in 0..(k - 1) |-> 0]

RECURSIVE GCD(_, _)
GCD(a, b) == IF b = 0 THEN a ELSE GCD(b, a % b)

\* n // d written for n / d
Quotient_Floor(n, d) == [num |-> n \div d, den |-> 1]

\* n / d for n >= 0, d > 0, in lowest terms
Quotient(n, d) ==
    LET g == GCD(n, d)
    IN  [num |-> n \div g, den |-> d \div g]

\* a float that holds an integer
Whole(n) == [num |-> n, den |-> 1]

Less(x, y) == x.num * y.den < y.num * x.den

\* the latest entry taken for the sum of the list
SumSeq_Last(s) == IF s = <<>> THEN 0 ELSE s[Len(s)]

RECURSIVE SumSeq(_)
SumSeq(s) == IF s = <<>> THEN 0 ELSE s[1] + SumSeq(Tail(s))

RECURSIVE SumVecUpTo(_, _)
SumVecUpTo(v, n) == IF n < 0 THEN 0 ELSE v[n] + SumVecUpTo(v, n - 1)

\* sum() of a per-arm list
SumVec(v) == SumVecUpTo(v, VecLen(v) - 1)

----------------------------------------------------------------------------
(* SlotMachineEnvironment *)

SlotMachineEnvironment(reward_probabilities, payouts) ==
    [reward_probabilities |-> Vec(reward_probabilities),
     rewards              |-> Vec(payouts),
     k_arms               |-> Len(payouts)]

\* pull(arm) raises IndexError at self.reward_probabilities[arm]
PullRaises(env, arm) == arm \notin DOMAIN env.reward_probabilities

\* pull paying 1 for a win instead of the arm's payout
pull_Bernoulli(env, arm, u) ==
    IF u < env.reward_probabilities[arm]
    THEN 1
    ELSE 0

\* what pull(arm) returns, u being the value np.random.random() returned
pull(env, arm, u) ==
    IF u < env.reward_probabilities[arm]
    THEN env.rewards[arm]
    ELSE 0

\* pull using up the arm it pays from
EnvironmentAfterPull_Consumes(env, arm) ==
    [env EXCEPT !.reward_probabilities =
        [a \in DOMAIN env.reward_probabilities |->
            IF a = arm THEN 0 ELSE env.reward_probabilities[a]]]

\* the environment after pull(arm): pull assigns to no attribute of self
EnvironmentAfterPull(env, arm) == env

\* the values pull(arm) can return
PullResults(env, arm) == {pull(env, arm, u) : u \in UniformSamples}

----------------------------------------------------------------------------
(* Agents *)

RandomAgent(steps) ==
    [kind |-> "RandomAgent", steps |-> steps]

EpsilonGreedyAgent(steps, epsilon) ==
    [kind |-> "EpsilonGreedyAgent", steps |-> steps, epsilon |-> epsilon]

ThompsonSamplingAgent(steps) ==
    [kind |-> "ThompsonSamplingAgent", steps |-> steps]

AgentInputs ==
    {RandomAgent(s) : s \in StepInputs}
    \cup {EpsilonGreedyAgent(s, e) : s \in StepInputs, e \in EpsilonInputs}
    \cup {ThompsonSamplingAgent(s) : s \in StepInputs}

\* the run of a second agent before its step() is called
PeerRun(a) ==
    [agent                    |-> a,
     pc                       |-> "idle",
     iteration                |-> 0,
     pulled                   |-> Unallocated,
     count_of_arms_pulled     |-> Unallocated,
     q_values                 |-> Unallocated,
     rewards_obtained_per_arm |-> Unallocated,
     reward_list              |-> Unallocated,
     cumulative_rewards       |-> Unallocated,
     result                   |-> Unallocated]

\* no second agent
NoPeer == PeerRun([kind |-> "none", steps |-> 0, epsilon |-> 0])

Init ==
    /\ environment \in {SlotMachineEnvironment(p, r) :
                            p \in ProbabilityInputs, r \in RewardInputs}
    /\ rewards \in {Vec(r) : r \in ModuleRewardInputs}
    /\ agent \in AgentInputs
    /\ pc = "idle"
    /\ calls = 0
    /\ iteration = 0
    /\ pulled = Unallocated
    /\ count_of_arms_pulled = Unallocated
    /\ q_values = Unallocated
    /\ rewards_obtained_per_arm = Unallocated
    /\ rewards_obtained = Unallocated
    /\ failures = Unallocated
    /\ reward_list = Unallocated
    /\ cumulative_rewards = Unallocated
    /\ result = Unallocated
    /\ peer = NoPeer

\* len(range(steps)): the iterations a step budget configures
RangeLen(steps) == IF steps > 0 THEN steps ELSE 0

\* `=` written for `+=`
CountPull_Assign(counts, arm_to_pull) == [counts EXCEPT ![arm_to_pull] = 1]

\* count_of_arms_pulled[arm_to_pull] += 1
CountPull(counts, arm_to_pull) == [counts EXCEPT ![arm_to_pull] = @ + 1]

\* step() can be called on an instance that is not inside a call
Callable == pc \in {"idle", "returned", "raised"} /\ calls < MaxCalls

\* a loop that tests its condition after the body
LoopContinues_AtLeastOnce ==
    pc = "running" /\ (iteration < agent.steps \/ iteration = 0)

\* range(self.steps) has another element
LoopContinues == pc = "running" /\ iteration < agent.steps

\* range(self.steps) is exhausted
LoopExhausted == pc = "running" /\ ~(iteration < agent.steps)

----------------------------------------------------------------------------
(* RandomAgent.step *)

RandomCall ==
    /\ agent.kind = "RandomAgent"
    /\ Callable
    /\ pc' = "running"
    /\ calls' = calls + 1
    /\ iteration' = 0
    /\ pulled' = <<>>
    /\ count_of_arms_pulled' = Zeros(environment.k_arms)
    /\ rewards_obtained' = <<>>
    /\ cumulative_rewards' = <<>>
    /\ q_values' = Unallocated
    /\ rewards_obtained_per_arm' = Unallocated
    /\ failures' = Unallocated
    /\ reward_list' = Unallocated
    /\ result' = Unallocated
    /\ UNCHANGED <<environment, rewards, agent>>
    /\ UNCHANGED peer

\* an iteration that averages the rewards the agent itself obtained
RandomIterate_OwnAverage ==
    /\ agent.kind = "RandomAgent"
    /\ LoopContinues
    /\ \E arm_to_pull \in 0..(environment.k_arms - 1), u \in UniformSamples :
         LET reward == pull(environment, arm_to_pull, u)
         IN  /\ iteration' = iteration + 1
             /\ pulled' = Append(pulled, arm_to_pull)
             /\ IF PullRaises(environment, arm_to_pull)
                THEN /\ pc' = "raised"
                     /\ UNCHANGED <<count_of_arms_pulled, rewards_obtained,
                                    cumulative_rewards>>
                ELSE /\ pc' = "running"
                     /\ count_of_arms_pulled' =
                            CountPull(count_of_arms_pulled, arm_to_pull)
                     /\ rewards_obtained' = Append(rewards_obtained, reward)
                     /\ cumulative_rewards' =
                            Append(cumulative_rewards,
                                   Quotient(SumSeq(rewards_obtained) + reward,
                                            Len(rewards_obtained) + 1))
             /\ environment' = EnvironmentAfterPull(environment, arm_to_pull)
    /\ UNCHANGED <<rewards, agent, calls, q_values,
                   rewards_obtained_per_arm, failures, reward_list, result>>
    /\ UNCHANGED peer

RandomIterate ==
    /\ agent.kind = "RandomAgent"
    /\ LoopContinues
    /\ \E arm_to_pull \in 0..(environment.k_arms - 1), u \in UniformSamples :
         LET reward == pull(environment, arm_to_pull, u)
         IN  /\ iteration' = iteration + 1
             /\ pulled' = Append(pulled, arm_to_pull)
             /\ IF PullRaises(environment, arm_to_pull)
                THEN /\ pc' = "raised"
                     /\ UNCHANGED <<count_of_arms_pulled, rewards_obtained,
                                    cumulative_rewards>>
                ELSE /\ pc' = "running"
                     /\ count_of_arms_pulled' =
                            CountPull(count_of_arms_pulled, arm_to_pull)
                     /\ rewards_obtained' = Append(rewards_obtained, reward)
                     /\ cumulative_rewards' =
                            Append(cumulative_rewards,
                                   Quotient(SumVec(rewards), VecLen(rewards)))
             /\ environment' = EnvironmentAfterPull(environment, arm_to_pull)
    /\ UNCHANGED <<rewards, agent, calls, q_values,
                   rewards_obtained_per_arm, failures, reward_list, result>>
    /\ UNCHANGED peer

RandomReturn ==
    /\ agent.kind = "RandomAgent"
    /\ LoopExhausted
    /\ pc' = "returned"
    /\ result' = <<count_of_arms_pulled, rewards_obtained, cumulative_rewards>>
    /\ UNCHANGED <<environment, rewards, agent, calls>>
    /\ UNCHANGED locals
    /\ UNCHANGED peer

----------------------------------------------------------------------------
(* EpsilonGreedyAgent.step *)

RECURSIVE ArgMaxFrom_NonStrict(_, _, _)
\* a scan that also replaces `best` by an equal entry
ArgMaxFrom_NonStrict(q, j, best) ==
    IF j \notin DOMAIN q
    THEN best
    ELSE ArgMaxFrom_NonStrict(q, j + 1,
                              IF Less(q[j], q[best]) THEN best ELSE j)

RECURSIVE ArgMaxFrom(_, _, _)
\* the scan of np.argmax: `best` is replaced only by a strictly larger entry
ArgMaxFrom(q, j, best) ==
    IF j \notin DOMAIN q
    THEN best
    ELSE ArgMaxFrom(q, j + 1, IF Less(q[best], q[j]) THEN j ELSE best)

\* an argmax that returns the last of several maximal entries
ArgMax_LastIndex(q) ==
    CHOOSE i \in DOMAIN q :
        /\ \A j \in DOMAIN q : ~Less(q[i], q[j])
        /\ \A j \in DOMAIN q : j > i => Less(q[j], q[i])

\* np.argmax(q_values)
ArgMax(q) == ArgMaxFrom(q, 1, 0)

\* `<=` written for `<` in the explore test
Explores_Inclusive(u, epsilon) == u <= epsilon

\* `>` written for `<` in the explore test
Explores_Reversed(u, epsilon) == u > epsilon

\* np.random.random() < self.epsilon
Explores(u, epsilon) == u < epsilon

\* the two branches of the explore/exploit test exchanged
ArmsToPull_Swapped(u, epsilon, q, k_arms) ==
    IF Explores(u, epsilon)
    THEN {ArgMax(q)}
    ELSE 0..(k_arms - 1)

\* the arms the explore/exploit test can select, u being the uniform sample
ArmsToPull(u, epsilon, q, k_arms) ==
    IF Explores(u, epsilon)
    THEN 0..(k_arms - 1)
    ELSE {ArgMax(q)}

\* a call that zeroes the run state on the first call only
EpsilonGreedyCall_Resumes ==
    /\ agent.kind = "EpsilonGreedyAgent"
    /\ Callable
    /\ pc' = "running"
    /\ calls' = calls + 1
    /\ result' = Unallocated
    /\ IF calls = 0
       THEN /\ iteration' = 0
            /\ pulled' = <<>>
            /\ q_values' = [i \in 0..(environment.k_arms - 1) |-> Whole(0)]
            /\ rewards_obtained_per_arm' = Zeros(environment.k_arms)
            /\ count_of_arms_pulled' = Zeros(environment.k_arms)
            /\ reward_list' = <<>>
            /\ cumulative_rewards' = <<>>
            /\ rewards_obtained' = Unallocated
            /\ failures' = Unallocated
       ELSE UNCHANGED locals
    /\ UNCHANGED <<environment, rewards, agent>>
    /\ UNCHANGED peer

EpsilonGreedyCall ==
    /\ agent.kind = "EpsilonGreedyAgent"
    /\ Callable
    /\ pc' = "running"
    /\ calls' = calls + 1
    /\ iteration' = 0
    /\ pulled' = <<>>
    /\ q_values' = [i \in 0..(environment.k_arms - 1) |-> Whole(0)]
    /\ rewards_obtained_per_arm' = Zeros(environment.k_arms)
    /\ count_of_arms_pulled' = Zeros(environment.k_arms)
    /\ reward_list' = <<>>
    /\ cumulative_rewards' = <<>>
    /\ rewards_obtained' = Unallocated
    /\ failures' = Unallocated
    /\ result' = Unallocated
    /\ UNCHANGED <<environment, rewards, agent>>
    /\ UNCHANGED peer

EpsilonGreedyIterate ==
    /\ agent.kind = "EpsilonGreedyAgent"
    /\ LoopContinues
    /\ \E u1 \in UniformSamples, u2 \in UniformSamples :
       \E arm_to_pull \in ArmsToPull(u1, agent.epsilon, q_values,
                                     environment.k_arms) :
         LET reward == pull(environment, arm_to_pull, u2)
             total  == rewards_obtained_per_arm[arm_to_pull] + reward
             counts == CountPull(count_of_arms_pulled, arm_to_pull)
         IN  /\ iteration' = iteration + 1
             /\ pulled' = Append(pulled, arm_to_pull)
             /\ IF PullRaises(environment, arm_to_pull)
                THEN /\ pc' = "raised"
                     /\ UNCHANGED <<count_of_arms_pulled, q_values,
                                    rewards_obtained_per_arm, reward_list,
                                    cumulative_rewards>>
                ELSE /\ pc' = "running"
                     /\ rewards_obtained_per_arm' =
                            [rewards_obtained_per_arm EXCEPT
                                ![arm_to_pull] = total]
                     /\ count_of_arms_pulled' = counts
                     /\ q_values' =
                            [q_values EXCEPT
                                ![arm_to_pull] =
                                    Quotient(total, counts[arm_to_pull])]
                     /\ reward_list' = Append(reward_list, reward)
                     /\ cumulative_rewards' =
                            Append(cumulative_rewards,
                                   Quotient(SumSeq(reward_list) + reward,
                                            Len(reward_list) + 1))
             /\ environment' = EnvironmentAfterPull(environment, arm_to_pull)
    /\ UNCHANGED <<rewards, agent, calls, rewards_obtained, failures, result>>
    /\ UNCHANGED peer

EpsilonGreedyReturn ==
    /\ agent.kind = "EpsilonGreedyAgent"
    /\ LoopExhausted
    /\ pc' = "returned"
    /\ result' = <<count_of_arms_pulled, reward_list, cumulative_rewards>>
    /\ UNCHANGED <<environment, rewards, agent, calls>>
    /\ UNCHANGED locals
    /\ UNCHANGED peer

----------------------------------------------------------------------------
(* ThompsonSamplingAgent.step *)

\* reward > 90
SuccessThreshold == 90

\* a failure recorded only for a pull that paid nothing
ThompsonRecord_ZeroOnly(successes, fails, arm_to_pull, reward) ==
    IF reward > SuccessThreshold
    THEN [rewards_obtained |-> [successes EXCEPT ![arm_to_pull] = @ + 1],
          failures         |-> fails]
    ELSE [rewards_obtained |-> successes,
          failures         |-> IF reward = 0
                               THEN [fails EXCEPT ![arm_to_pull] = @ + 1]
                               ELSE fails]

\* `>=` written for `>` in the success test
ThompsonRecord_Inclusive(successes, fails, arm_to_pull, reward) ==
    IF reward >= SuccessThreshold
    THEN [rewards_obtained |-> [successes EXCEPT ![arm_to_pull] = @ + 1],
          failures         |-> fails]
    ELSE [rewards_obtained |-> successes,
          failures         |-> [fails EXCEPT ![arm_to_pull] = @ + 1]]

\* the update of the two per-arm counters after a pull
ThompsonRecord(successes, fails, arm_to_pull, reward) ==
    IF reward > SuccessThreshold
    THEN [rewards_obtained |-> [successes EXCEPT ![arm_to_pull] = @ + 1],
          failures         |-> fails]
    ELSE [rewards_obtained |-> successes,
          failures         |-> [fails EXCEPT ![arm_to_pull] = @ + 1]]

RECURSIVE BetaScan_NonStrict(_, _, _, _)
\* a loop over j that also replaces the arm on an equal sample
BetaScan_NonStrict(beta, j, beta_max, arm_to_pull) ==
    IF j \notin DOMAIN beta
    THEN arm_to_pull
    ELSE IF beta[j] >= beta_max
         THEN BetaScan_NonStrict(beta, j + 1, beta[j], j)
         ELSE BetaScan_NonStrict(beta, j + 1, beta_max, arm_to_pull)

RECURSIVE BetaScan(_, _, _, _)
\* the loop over j: beta holds the value betavariate returned for each arm
BetaScan(beta, j, beta_max, arm_to_pull) ==
    IF j \notin DOMAIN beta
    THEN arm_to_pull
    ELSE IF beta[j] > beta_max
         THEN BetaScan(beta, j + 1, beta[j], j)
         ELSE BetaScan(beta, j + 1, beta_max, arm_to_pull)

\* arm_to_pull after the loop over j, starting from arm 0 and beta_max 0
BetaArm(beta) == BetaScan(beta, 0, 0, 0)

ThompsonCall ==
    /\ agent.kind = "ThompsonSamplingAgent"
    /\ Callable
    /\ pc' = "running"
    /\ calls' = calls + 1
    /\ iteration' = 0
    /\ pulled' = <<>>
    /\ count_of_arms_pulled' = Zeros(environment.k_arms)
    /\ rewards_obtained' = Zeros(environment.k_arms)
    /\ failures' = Zeros(environment.k_arms)
    /\ cumulative_rewards' = <<>>
    /\ reward_list' = <<>>
    /\ q_values' = Unallocated
    /\ rewards_obtained_per_arm' = Unallocated
    /\ result' = Unallocated
    /\ UNCHANGED <<environment, rewards, agent>>
    /\ UNCHANGED peer

ThompsonIterate ==
    /\ agent.kind = "ThompsonSamplingAgent"
    /\ LoopContinues
    /\ \E beta \in [0..(environment.k_arms - 1) -> BetaSamples],
          u \in UniformSamples :
         LET arm_to_pull == BetaArm(beta)
             reward == pull(environment, arm_to_pull, u)
             counters == ThompsonRecord(rewards_obtained, failures,
                                        arm_to_pull, reward)
         IN  /\ iteration' = iteration + 1
             /\ pulled' = Append(pulled, arm_to_pull)
             /\ count_of_arms_pulled' =
                    CountPull(count_of_arms_pulled, arm_to_pull)
             /\ IF PullRaises(environment, arm_to_pull)
                THEN /\ pc' = "raised"
                     /\ UNCHANGED <<rewards_obtained, failures, reward_list,
                                    cumulative_rewards>>
                ELSE /\ pc' = "running"
                     /\ rewards_obtained' = counters.rewards_obtained
                     /\ failures' = counters.failures
                     /\ reward_list' = Append(reward_list, reward)
                     /\ cumulative_rewards' =
                            Append(cumulative_rewards,
                                   Quotient(SumSeq(reward_list) + reward,
                                            Len(reward_list) + 1))
             /\ environment' = EnvironmentAfterPull(environment, arm_to_pull)
    /\ UNCHANGED <<rewards, agent, calls, q_values,
                   rewards_obtained_per_arm, result>>
    /\ UNCHANGED peer

ThompsonReturn ==
    /\ agent.kind = "ThompsonSamplingAgent"
    /\ LoopExhausted
    /\ pc' = "returned"
    /\ result' = <<count_of_arms_pulled, rewards_obtained, cumulative_rewards>>
    /\ UNCHANGED <<environment, rewards, agent, calls>>
    /\ UNCHANGED locals
    /\ UNCHANGED peer

----------------------------------------------------------------------------
(* A second agent bound to the same environment: RandomAgent.step or
   EpsilonGreedyAgent.step, its iterations interleaved with the first agent's *)

\* count_of_arms_pulled kept in one array that every agent's step() updates
CountsAfterPeerPull_Shared(counts, arm_to_pull) ==
    IF counts = Unallocated THEN counts ELSE CountPull(counts, arm_to_pull)

\* the first agent's count_of_arms_pulled after a pull of the second agent:
\* the array is a local of the call that created it
CountsAfterPeerPull(counts, arm_to_pull) == counts

PeerCall ==
    /\ peer.agent.kind \in {"RandomAgent", "EpsilonGreedyAgent"}
    /\ peer.pc = "idle"
    /\ peer' =
          [peer EXCEPT
              !.pc = "running",
              !.iteration = 0,
              !.pulled = <<>>,
              !.count_of_arms_pulled = Zeros(environment.k_arms),
              !.q_values =
                  IF peer.agent.kind = "EpsilonGreedyAgent"
                  THEN [i \in 0..(environment.k_arms - 1) |-> Whole(0)]
                  ELSE Unallocated,
              !.rewards_obtained_per_arm =
                  IF peer.agent.kind = "EpsilonGreedyAgent"
                  THEN Zeros(environment.k_arms)
                  ELSE Unallocated,
              !.reward_list = <<>>,
              !.cumulative_rewards = <<>>]
    /\ UNCHANGED <<environment, rewards>>
    /\ UNCHANGED run

\* the second agent's run after a pull of arm_to_pull that returned reward
PeerAfterPull(arm_to_pull, reward) ==
    LET counts == CountPull(peer.count_of_arms_pulled, arm_to_pull)
    IN  IF peer.agent.kind = "RandomAgent"
        THEN [peer EXCEPT
                 !.iteration = @ + 1,
                 !.pulled = Append(@, arm_to_pull),
                 !.count_of_arms_pulled = counts,
                 !.reward_list = Append(@, reward),
                 !.cumulative_rewards =
                     Append(@, Quotient(SumVec(rewards), VecLen(rewards)))]
        ELSE LET total == peer.rewards_obtained_per_arm[arm_to_pull] + reward
             IN  [peer EXCEPT
                     !.iteration = @ + 1,
                     !.pulled = Append(@, arm_to_pull),
                     !.rewards_obtained_per_arm[arm_to_pull] = total,
                     !.count_of_arms_pulled = counts,
                     !.q_values[arm_to_pull] =
                         Quotient(total, counts[arm_to_pull]),
                     !.reward_list = Append(@, reward),
                     !.cumulative_rewards =
                         Append(@, Quotient(SumSeq(peer.reward_list) + reward,
                                            Len(peer.reward_list) + 1))]

PeerIterate ==
    /\ peer.pc = "running"
    /\ peer.iteration < peer.agent.steps
    /\ \E u1 \in UniformSamples, u2 \in UniformSamples :
       \E arm_to_pull \in
             IF peer.agent.kind = "RandomAgent"
             THEN 0..(environment.k_arms - 1)
             ELSE ArmsToPull(u1, peer.agent.epsilon, peer.q_values,
                             environment.k_arms) :
         /\ IF PullRaises(environment, arm_to_pull)
            THEN peer' = [peer EXCEPT !.pc = "raised",
                                      !.iteration = @ + 1,
                                      !.pulled = Append(@, arm_to_pull)]
            ELSE peer' = PeerAfterPull(arm_to_pull,
                                       pull(environment, arm_to_pull, u2))
         /\ environment' = EnvironmentAfterPull(environment, arm_to_pull)
         /\ count_of_arms_pulled' =
                CountsAfterPeerPull(count_of_arms_pulled, arm_to_pull)
    /\ UNCHANGED <<rewards, agent, pc, calls, iteration, pulled, q_values,
                   rewards_obtained_per_arm, rewards_obtained, failures,
                   reward_list, cumulative_rewards, result>>

PeerReturn ==
    /\ peer.pc = "running"
    /\ ~(peer.iteration < peer.agent.steps)
    /\ peer' = [peer EXCEPT
                   !.pc = "returned",
                   !.result = <<peer.count_of_arms_pulled, peer.reward_list,
                                peer.cumulative_rewards>>]
    /\ UNCHANGED <<environment, rewards>>
    /\ UNCHANGED run

----------------------------------------------------------------------------

Next ==
    \/ RandomCall
    \/ RandomIterate
    \/ RandomReturn
    \/ EpsilonGreedyCall
    \/ EpsilonGreedyIterate
    \/ EpsilonGreedyReturn
    \/ ThompsonCall
    \/ ThompsonIterate
    \/ ThompsonReturn

Spec == Init /\ [][Next]_vars

\* the environments two interleaved agents are bound to
PairEnvironments ==
    {SlotMachineEnvironment(<<Half, One>>, <<91, 10>>),
     SlotMachineEnvironment(<<Half>>, <<91, 10>>)}

\* two agents constructed on one environment, neither run yet
InitPair ==
    /\ environment \in PairEnvironments
    /\ rewards = Vec(<<91, 10>>)
    /\ agent \in {RandomAgent(PairSteps),
                  EpsilonGreedyAgent(PairSteps, Half),
                  ThompsonSamplingAgent(PairSteps)}
    /\ pc = "idle"
    /\ calls = 0
    /\ iteration = 0
    /\ pulled = Unallocated
    /\ count_of_arms_pulled = Unallocated
    /\ q_values = Unallocated
    /\ rewards_obtained_per_arm = Unallocated
    /\ rewards_obtained = Unallocated
    /\ failures = Unallocated
    /\ reward_list = Unallocated
    /\ cumulative_rewards = Unallocated
    /\ result = Unallocated
    /\ peer \in {PeerRun(RandomAgent(PairSteps)),
                 PeerRun(EpsilonGreedyAgent(PairSteps, Half))}

\* every interleaving of the iterations of the two agents
NextPair ==
    \/ Next
    \/ PeerCall
    \/ PeerIterate
    \/ PeerReturn

SpecPair == InitPair /\ [][NextPair]_vars

----------------------------------------------------------------------------
(* Properties *)

\* the per-step rewards the current call has recorded
RewardHistory ==
    IF agent.kind = "RandomAgent" THEN rewards_obtained ELSE reward_list

InCall == pc \in {"running", "returned"}

Arms == 0..(environment.k_arms - 1)

\* C1: for every arm in [0, k_arms) whose pull returns, pull(arm) returns 0
\* or rewards[arm] whatever uniform sample is drawn; every reward an agent
\* has recorded is 0 or the payout of the arm it pulled at that step.
C1_PullReturnsZeroOrPayout ==
    /\ \A arm \in Arms, u \in UniformSamples :
         ~PullRaises(environment, arm) =>
            pull(environment, arm, u) \in {0, environment.rewards[arm]}
    /\ \A n \in 1..Len(RewardHistory) :
         RewardHistory[n] \in {0, environment.rewards[pulled[n]]}

\* C1 witness: one call has recorded a payout and a zero
C1_Witness ==
    \E n, m \in 1..Len(RewardHistory) :
        /\ RewardHistory[n] = environment.rewards[pulled[n]]
        /\ RewardHistory[n] > 0
        /\ RewardHistory[m] = 0

\* C2: for RandomAgent and EpsilonGreedyAgent the pull counts sum to the
\* number of completed steps at every point of a run, and the counts a run
\* returns sum to the number of steps its budget configures (the budget
\* itself for every budget >= 0).
C2_CountsSumToSteps ==
    agent.kind \in {"RandomAgent", "EpsilonGreedyAgent"} =>
        /\ pc # "idle" => SumVec(count_of_arms_pulled) = Len(RewardHistory)
        /\ pc = "returned" => SumVec(result[1]) = RangeLen(agent.steps)

\* C2 witness: a RandomAgent run over two arms has returned after MaxSteps
\* steps with both arms pulled
C2_Witness ==
    /\ agent = RandomAgent(MaxSteps)
    /\ pc = "returned"
    /\ environment.k_arms = 2
    /\ result[1][0] > 0
    /\ result[1][1] > 0

\* C3: for ThompsonSamplingAgent, after every completed step each arm's
\* success counter plus failure counter equals its pull count, and the pull
\* counts a run returns sum to the number of steps its budget configures.
C3_ThompsonCountersAddUp ==
    agent.kind = "ThompsonSamplingAgent" =>
        /\ InCall =>
             \A arm \in Arms :
                rewards_obtained[arm] + failures[arm] = count_of_arms_pulled[arm]
        /\ pc = "returned" => SumVec(result[1]) = RangeLen(agent.steps)

\* C3 witness: a returned Thompson run with a success and a paid failure
C3_Witness ==
    /\ agent = ThompsonSamplingAgent(MaxSteps)
    /\ pc = "returned"
    /\ \E arm \in Arms : rewards_obtained[arm] > 0
    /\ \E n \in 1..Len(reward_list) :
          reward_list[n] > 0 /\ reward_list[n] <= SuccessThreshold

\* the scenario of C4: probabilities [1.0, 0.0], rewards [10, 10],
\* EpsilonGreedyAgent with epsilon 0 and 5 steps
C4_Scenario ==
    /\ environment = SlotMachineEnvironment(<<One, 0>>, <<10, 10>>)
    /\ agent = EpsilonGreedyAgent(5, 0)

\* C4: in the scenario every step after step 1 selects arm 0 and the run
\* returns the reward sequence [10, 10, 10, 10, 10].
C4_ScenarioPullsArmZero ==
    C4_Scenario =>
        /\ \A n \in 2..Len(pulled) : pulled[n] = 0
        /\ pc = "returned" => result[2] = <<10, 10, 10, 10, 10>>

\* C4 witness: the scenario's run has returned
C4_Witness ==
    /\ C4_Scenario
    /\ pc = "returned"
    /\ Len(result[2]) = 5

\* sum of the rewards the first n steps obtained from `arm`
RECURSIVE ObservedSum(_, _)
ObservedSum(arm, n) ==
    IF n = 0
    THEN 0
    ELSE ObservedSum(arm, n - 1)
         + (IF pulled[n] = arm THEN RewardHistory[n] ELSE 0)

\* number of the first n steps that pulled `arm`
RECURSIVE ObservedCount(_, _)
ObservedCount(arm, n) ==
    IF n = 0
    THEN 0
    ELSE ObservedCount(arm, n - 1) + (IF pulled[n] = arm THEN 1 ELSE 0)

\* per-arm mean reward of the first n (arm, reward) pairs observed
ObservedMeans(n) ==
    [arm \in Arms |->
        IF ObservedCount(arm, n) = 0
        THEN Whole(0)
        ELSE Quotient(ObservedSum(arm, n), ObservedCount(arm, n))]

\* C5: with epsilon = 0 the arm selected at every step after the first is a
\* function of the (arm, reward) pairs observed before that step alone: the
\* first maximal entry of their per-arm means, whatever the uniform sample
\* of the explore test is.
C5_GreedyArmFollowsHistory ==
    (agent.kind = "EpsilonGreedyAgent" /\ agent.epsilon = 0) =>
        \A n \in 2..Len(pulled) :
            pulled[n] = ArgMax(ObservedMeans(n - 1))

\* C5 witness: an epsilon = 0 run has taken three steps with different rewards
C5_Witness ==
    /\ agent.kind = "EpsilonGreedyAgent"
    /\ agent.epsilon = 0
    /\ Len(reward_list) >= 3
    /\ reward_list[1] # reward_list[2]

\* C6: every constructed environment has as many reward probabilities as
\* payouts, and k_arms is that number.
C6_LengthsAgree ==
    /\ VecLen(environment.reward_probabilities) = VecLen(environment.rewards)
    /\ VecLen(environment.rewards) = environment.k_arms

\* C7: the value a run returns is a triple of the per-arm pull counts, the
\* per-step raw rewards (one per step) and the cumulative averages (one per
\* step).
C7_RunReturnsTriple ==
    pc = "returned" =>
        /\ Len(result) = 3
        /\ DOMAIN result[1] = Arms
        /\ result[1] = count_of_arms_pulled
        /\ result[2] = RewardHistory
        /\ Len(result[2]) = RangeLen(agent.steps)
        /\ result[3] = cumulative_rewards
        /\ Len(result[3]) = RangeLen(agent.steps)

\* the pulls of `arm` that return can return the same values after the step
SamePullResults(arm) ==
    ~PullRaises(environment, arm) =>
        /\ ~PullRaises(environment', arm)
        /\ PullResults(environment', arm) = PullResults(environment, arm)

\* C8: no step of any call changes reward_probabilities, rewards or k_arms,
\* so they stay as constructed, and the values a pull of an arm can return
\* are the same after any pulls as before them.
C8_PullChangesNoState ==
    [][/\ environment' = environment
       /\ \A arm \in Arms : SamePullResults(arm)]_vars

\* C8 witness: a second call on the environment has pulled, a payout among
\* its rewards
C8_Witness ==
    /\ calls = 2
    /\ Len(RewardHistory) >= 2
    /\ \E n \in 1..Len(RewardHistory) : RewardHistory[n] > 0

\* one loop iteration appends one entry to the list and keeps the others
GrowsByOne(before, after) ==
    /\ Len(after) = Len(before) + 1
    /\ SubSeq(after, 1, Len(before)) = before

\* C9: for a step budget >= 0 a call never ends early, returns after
\* exactly `steps` iterations, and each iteration pulls once and appends
\* one entry to the reward history and one to the cumulative averages,
\* leaving the earlier entries as they were.
C9_RunsExactlySteps ==
    [][agent.steps >= 0 =>
        /\ pc' # "raised"
        /\ (pc = "running" /\ pc' = "returned") =>
              /\ iteration = agent.steps
              /\ Len(RewardHistory) = agent.steps
              /\ Len(cumulative_rewards) = agent.steps
        /\ (pc = "running" /\ pc' = "running") =>
              /\ iteration' = iteration + 1
              /\ GrowsByOne(pulled, pulled')
              /\ GrowsByOne(RewardHistory, RewardHistory')
              /\ GrowsByOne(cumulative_rewards, cumulative_rewards')]_vars

\* the run state step() starts a call with
FreshRunState ==
    /\ iteration = 0
    /\ pulled = <<>>
    /\ count_of_arms_pulled = Zeros(environment.k_arms)
    /\ RewardHistory = <<>>
    /\ cumulative_rewards = <<>>
    /\ agent.kind = "EpsilonGreedyAgent" =>
          /\ q_values = [arm \in Arms |-> Whole(0)]
          /\ rewards_obtained_per_arm = Zeros(environment.k_arms)
    /\ agent.kind = "ThompsonSamplingAgent" =>
          /\ rewards_obtained = Zeros(environment.k_arms)
          /\ failures = Zeros(environment.k_arms)

\* C10 as stated: a call on an instance whose earlier call completed a step
\* does not start from fresh zeroed run state.
C10_SecondRunNotFresh ==
    [][(/\ calls >= 1
        /\ Len(RewardHistory) >= 1
        /\ pc # "running"
        /\ pc' = "running") => ~FreshRunState']_vars

\* C10 as amended: construction creates no run state; every call of step(),
\* the first and any later one on the same instance, starts from zeroed
\* run state, and what a call returns covers that call's steps only.
C10_EveryRunStartsFresh ==
    [][/\ pc = "idle" => locals = <<0, Unallocated, Unallocated, Unallocated,
                                    Unallocated, Unallocated, Unallocated,
                                    Unallocated, Unallocated>>
       /\ (pc # "running" /\ pc' = "running") => FreshRunState'
       /\ pc' = "returned" => Len(result'[3]) = RangeLen(agent.steps)]_vars

\* C10 witness: a second call starts on an instance whose first call
\* returned after at least one step
C10_Witness ==
    /\ calls = 2
    /\ pc = "running"
    /\ iteration = 0
    /\ agent.steps >= 1
    /\ ~\E arm \in Arms : PullRaises(environment, arm)
    /\ FreshRunState

RECURSIVE PrefixSum(_, _)
\* the sum of the first i entries of a list
PrefixSum(s, i) == IF i = 0 THEN 0 ELSE s[i] + PrefixSum(s, i - 1)

RECURSIVE PullsOf(_, _, _)
\* how many of the first n entries of a log of arms are `arm`
PullsOf(log, arm, n) ==
    IF n = 0
    THEN 0
    ELSE PullsOf(log, arm, n - 1) + (IF log[n] = arm THEN 1 ELSE 0)

RECURSIVE PaidTo(_, _, _, _)
\* what the first n pulls paid to `arm`
PaidTo(log, history, arm, n) ==
    IF n = 0
    THEN 0
    ELSE PaidTo(log, history, arm, n - 1)
         + (IF log[n] = arm THEN history[n] ELSE 0)

\* the pull counts of an agent that ran alone and drew the arms of `log`
\* and the rewards of `history` (ThompsonSamplingAgent counts before it pulls)
AloneCounts(a, log, history) ==
    LET n == IF a.kind = "ThompsonSamplingAgent"
             THEN Len(log)
             ELSE Len(history)
    IN  [arm \in Arms |-> PullsOf(log, arm, n)]

\* the estimates of an EpsilonGreedyAgent that ran alone on these draws
AloneQValues(log, history) ==
    [arm \in Arms |->
        IF PullsOf(log, arm, Len(history)) = 0
        THEN Whole(0)
        ELSE Quotient(PaidTo(log, history, arm, Len(history)),
                      PullsOf(log, arm, Len(history)))]

\* the cumulative series of an agent that ran alone on these draws
AloneSeries(a, history) ==
    [n \in 1..Len(history) |->
        IF a.kind = "RandomAgent"
        THEN Quotient(SumVec(rewards), VecLen(rewards))
        ELSE Quotient(PrefixSum(history, n), n)]

\* both agents hold the counts, estimates and series of a run of their own
RunsAsAlone ==
    /\ pc # "idle" =>
          /\ count_of_arms_pulled = AloneCounts(agent, pulled, RewardHistory)
          /\ cumulative_rewards = AloneSeries(agent, RewardHistory)
          /\ agent.kind = "EpsilonGreedyAgent" =>
                q_values = AloneQValues(pulled, RewardHistory)
    /\ peer.pc # "idle" =>
          /\ peer.count_of_arms_pulled =
                 AloneCounts(peer.agent, peer.pulled, peer.reward_list)
          /\ peer.cumulative_rewards =
                 AloneSeries(peer.agent, peer.reward_list)
          /\ peer.agent.kind = "EpsilonGreedyAgent" =>
                peer.q_values = AloneQValues(peer.pulled, peer.reward_list)

\* C11: two agents bound to the same environment share no mutable state.
\* Whatever the interleaving of their iterations, a step that changes the
\* run of one agent leaves the run of the other and the environment as they
\* were, and each agent holds the counts, estimates and cumulative series
\* that a run of its own on the arms and rewards it drew produces.
C11_AgentsShareNoState ==
    /\ []RunsAsAlone
    /\ [][/\ peer' # peer => run' = run
          /\ run' # run => peer' = peer
          /\ environment' = environment
          /\ rewards' = rewards
         ]_vars

\* C11 witness: both agents are in the middle of their runs, each has
\* pulled, and their pull counts differ
C11_Witness ==
    /\ pc = "running"
    /\ peer.pc = "running"
    /\ iteration >= 1
    /\ iteration < agent.steps
    /\ peer.iteration >= 1
    /\ peer.iteration < peer.agent.steps
    /\ count_of_arms_pulled # peer.count_of_arms_pulled

\* every entry of a per-arm list is 0
AllZero(v) == \A i \in DOMAIN v : v[i] = 0

\* C12: nothing is validated. Environments whose two vectors differ in
\* length or hold a probability above 1 are constructed and run; the only
\* error a run ends with is the IndexError of pull for an arm without a
\* probability entry. A run with steps <= 0 never raises and returns all-zero
\* pull counts, no per-step reward and an empty cumulative series (its
\* second component is empty, or the all-zero per-arm counter that
\* ThompsonSamplingAgent returns there).
C12_NoValidation ==
    /\ pc = "raised" => PullRaises(environment, pulled[Len(pulled)])
    /\ agent.steps <= 0 =>
          /\ pc # "raised"
          /\ pc # "idle" => /\ AllZero(count_of_arms_pulled)
                            /\ RewardHistory = <<>>
                            /\ pulled = <<>>
          /\ pc = "returned" =>
                /\ result[1] = Zeros(environment.k_arms)
                /\ result[2] \in {<<>>, Zeros(environment.k_arms)}
                /\ result[3] = <<>>

\* C12 witness: a run with a negative step budget has returned on an
\* environment with fewer probabilities than payouts, one of them above 1
C12_Witness ==
    /\ agent.steps < 0
    /\ pc = "returned"
    /\ VecLen(environment.reward_probabilities) < environment.k_arms
    /\ \E a \in DOMAIN environment.reward_probabilities :
          environment.reward_probabilities[a] > One

\* the arm of the latest iteration
LastPulled(log) == log[Len(log)]

\* C13: the exploit branch selects the lowest index among the maximal
\* q_values: no entry is larger than the selected one and every entry before
\* it is strictly smaller; while all q_values are 0 it selects index 0.
C13_ExploitTakesLowestMaximalIndex ==
    (agent.kind = "EpsilonGreedyAgent" /\ pc = "running") =>
        \A u \in UniformSamples :
            ~Explores(u, agent.epsilon) =>
                \E a \in Arms :
                    /\ ArmsToPull(u, agent.epsilon, q_values,
                                  environment.k_arms) = {a}
                    /\ \A j \in Arms : ~Less(q_values[a], q_values[j])
                    /\ \A j \in Arms : j < a => Less(q_values[j], q_values[a])
                    /\ (\A j \in Arms : q_values[j] = Whole(0)) => a = 0

\* C13 witness: an exploit step is possible while two arms tie at a
\* maximal estimate that is not 0
C13_Witness ==
    /\ agent.kind = "EpsilonGreedyAgent"
    /\ pc = "running"
    /\ iteration < agent.steps
    /\ agent.epsilon < One
    /\ environment.k_arms = 2
    /\ q_values[0] = q_values[1]
    /\ Less(Whole(0), q_values[0])

\* C14: after every completed step of EpsilonGreedyAgent, q_values[arm] is
\* the arm's reward sum divided by its pull count for every arm pulled at
\* least once and 0 for every arm never pulled; the step adds one pull and
\* the reward to the pulled arm and changes the estimate, the sum and the
\* count of no other arm.
C14_QValuesAreArmMeans ==
    [][(agent.kind = "EpsilonGreedyAgent" /\ pc' = "running") =>
          /\ \A a \in Arms :
                IF count_of_arms_pulled'[a] > 0
                THEN q_values'[a].num * count_of_arms_pulled'[a] =
                        rewards_obtained_per_arm'[a] * q_values'[a].den
                ELSE q_values'[a] = Whole(0)
          /\ pc = "running" =>
                LET arm == LastPulled(pulled')
                IN  /\ count_of_arms_pulled'[arm] =
                           count_of_arms_pulled[arm] + 1
                    /\ rewards_obtained_per_arm'[arm] =
                           rewards_obtained_per_arm[arm]
                               + reward_list'[Len(reward_list')]
                    /\ \A a \in Arms \ {arm} :
                          /\ q_values'[a] = q_values[a]
                          /\ rewards_obtained_per_arm'[a] =
                                 rewards_obtained_per_arm[a]
                          /\ count_of_arms_pulled'[a] =
                                 count_of_arms_pulled[a]
      ]_vars

\* C14 witness: an arm pulled twice has a mean that is no integer, the other
\* arm was never pulled
C14_Witness ==
    /\ agent.kind = "EpsilonGreedyAgent"
    /\ pc = "running"
    /\ \E a \in Arms, b \in Arms :
          /\ count_of_arms_pulled[a] >= 2
          /\ q_values[a].den > 1
          /\ count_of_arms_pulled[b] = 0
          /\ q_values[b] = Whole(0)

\* C15: whatever the K samples of an iteration of ThompsonSamplingAgent are,
\* the arm selected is the lowest index whose sample equals the largest of
\* them.
C15_ThompsonTakesFirstMaximalSample ==
    (agent.kind = "ThompsonSamplingAgent" /\ pc = "running") =>
        \A beta \in [Arms -> BetaSamples] :
            LET arm_to_pull == BetaArm(beta)
            IN  /\ arm_to_pull \in Arms
                /\ \A j \in Arms : beta[j] <= beta[arm_to_pull]
                /\ \A j \in Arms :
                      j < arm_to_pull => beta[j] < beta[arm_to_pull]

\* C15 witness: a run of ThompsonSamplingAgent has selected the first arm in
\* one iteration and a later arm in another
C15_Witness ==
    /\ agent.kind = "ThompsonSamplingAgent"
    /\ pc = "running"
    /\ \E m \in 1..Len(pulled), n \in 1..Len(pulled) :
          pulled[m] = 0 /\ pulled[n] = 1

\* C16: a completed step of ThompsonSamplingAgent adds one to exactly one of
\* the two counters of the pulled arm and changes no counter of another arm:
\* the success counter when the payout is above 90, the failure counter when
\* it is 90 or less, a payout of 0 included.
C16_ThompsonCountsSuccessAboveNinety ==
    [][(agent.kind = "ThompsonSamplingAgent"
            /\ pc = "running" /\ pc' = "running") =>
          LET arm    == LastPulled(pulled')
              reward == reward_list'[Len(reward_list')]
          IN  /\ IF reward > 90
                 THEN /\ rewards_obtained'[arm] = rewards_obtained[arm] + 1
                      /\ failures'[arm] = failures[arm]
                 ELSE /\ rewards_obtained'[arm] = rewards_obtained[arm]
                      /\ failures'[arm] = failures[arm] + 1
              /\ reward = 0 => failures'[arm] = failures[arm] + 1
              /\ \A a \in Arms \ {arm} :
                    /\ rewards_obtained'[a] = rewards_obtained[a]
                    /\ failures'[a] = failures[a]
      ]_vars

\* C16 witness: a payout of exactly 90 was obtained and every pull so far
\* is counted as a failure
C16_Witness ==
    /\ agent.kind = "ThompsonSamplingAgent"
    /\ pc = "running"
    /\ \E n \in 1..Len(reward_list) :
          /\ reward_list[n] = 90
          /\ rewards_obtained[pulled[n]] = 0
          /\ failures[pulled[n]] = Len(reward_list)

\* C17: every entry of the cumulative series of RandomAgent is the same
\* number, sum(rewards) / len(rewards) of the module-level list, whatever
\* arms were pulled and whatever rewards were obtained.
C17_RandomSeriesIsConstant ==
    (agent.kind = "RandomAgent" /\ pc # "idle") =>
        /\ Len(cumulative_rewards) = Len(rewards_obtained)
        /\ \A n \in 1..Len(cumulative_rewards) :
              cumulative_rewards[n].num * VecLen(rewards) =
                  SumVec(rewards) * cumulative_rewards[n].den

\* C17 witness: two entries have been appended in a run whose own rewards
\* average to another number, on an environment whose payouts are not the
\* module-level list
C17_Witness ==
    /\ agent.kind = "RandomAgent"
    /\ pc = "running"
    /\ Len(cumulative_rewards) >= 2
    /\ environment.rewards # rewards
    /\ SumSeq(rewards_obtained) * VecLen(rewards) #
           SumVec(rewards) * Len(rewards_obtained)

\* C18: for EpsilonGreedyAgent and ThompsonSamplingAgent the i-th entry of
\* the cumulative series is the sum of the agent's own first i raw rewards
\* divided by i (for ThompsonSamplingAgent the payouts, not the outcomes of
\* the success test).
C18_SeriesIsRunningAverage ==
    (agent.kind \in {"EpsilonGreedyAgent", "ThompsonSamplingAgent"}
        /\ pc # "idle") =>
        /\ Len(cumulative_rewards) = Len(reward_list)
        /\ \A i \in 1..Len(cumulative_rewards) :
              cumulative_rewards[i].num * i =
                  PrefixSum(reward_list, i) * cumulative_rewards[i].den

\* C18 witness: ThompsonSamplingAgent obtained a payout of 91 and then
\* nothing, so that its series holds 91 and 91/2
C18_Witness ==
    /\ agent.kind = "ThompsonSamplingAgent"
    /\ Len(reward_list) >= 2
    /\ reward_list[1] = 91
    /\ reward_list[2] = 0
    /\ cumulative_rewards[1] = Whole(91)
    /\ cumulative_rewards[2] = [num |-> 91, den |-> 2]

\* C19: EpsilonGreedyAgent with epsilon = 0 on payouts that are not negative
\* pulls arm 0 in every iteration, the run ends without an error, and the
\* counts it returns hold the number of iterations of range(steps) for arm 0
\* and 0 for every other arm.
C19_GreedyStaysOnArmZero ==
    (agent.kind = "EpsilonGreedyAgent" /\ agent.epsilon = 0 /\ pc # "idle"
        /\ \A a \in Arms : environment.rewards[a] >= 0) =>
        /\ \A n \in 1..Len(pulled) : pulled[n] = 0
        /\ pc # "raised"
        /\ pc = "returned" =>
              /\ result[1][0] = RangeLen(agent.steps)
              /\ \A a \in Arms \ {0} : result[1][a] = 0

\* C19 witness: such a run has returned after several iterations on two arms,
\* arm 0 having paid nothing
C19_Witness ==
    /\ agent.kind = "EpsilonGreedyAgent"
    /\ agent.epsilon = 0
    /\ pc = "returned"
    /\ agent.steps >= 2
    /\ environment.k_arms = 2
    /\ q_values[0] = Whole(0)
    /\ result[1][0] = agent.steps

\* what one iteration does with arm a, u being the uniform sample of pull
Outcome(env, a, u) ==
    IF PullRaises(env, a)
    THEN [arm |-> a, raised |-> TRUE, reward |-> 0]
    ELSE [arm |-> a, raised |-> FALSE, reward |-> pull(env, a, u)]

\* the (arm, reward) pairs one iteration of RandomAgent can produce
RandomOutcomes ==
    {Outcome(environment, a, u) : a \in Arms, u \in UniformSamples}

\* the (arm, reward) pairs one iteration of EpsilonGreedyAgent can produce
EpsilonGreedyOutcomes(epsilon) ==
    UNION {{Outcome(environment, a, u2) :
                a \in ArmsToPull(u1, epsilon, q_values, environment.k_arms),
                u2 \in UniformSamples} : u1 \in UniformSamples}

\* values of epsilon that are at least 1
EpsilonAtLeastOne == {One, One + 1}

\* C20: with epsilon >= 1 every uniform sample takes the explore branch, so
\* that in every iteration every arm can be selected whatever q_values and
\* the history are, and the (arm, reward) pairs an iteration can produce are
\* those of an iteration of RandomAgent on the same environment; both agents
\* run range(steps) iterations, hence reach the same sequences of pairs.
C20_EpsilonOneIsRandom ==
    (agent.kind = "EpsilonGreedyAgent" /\ pc = "running") =>
        /\ \A epsilon \in EpsilonAtLeastOne :
              /\ \A u \in UniformSamples :
                    /\ Explores(u, epsilon)
                    /\ ArmsToPull(u, epsilon, q_values,
                                  environment.k_arms) = Arms
              /\ EpsilonGreedyOutcomes(epsilon) = RandomOutcomes
        /\ agent.epsilon >= One =>
              /\ Len(pulled) = iteration
              /\ \A n \in 1..Len(pulled) : pulled[n] \in Arms

\* C20 witness: with epsilon = 1 the second arm was pulled although only the
\* first arm had a positive estimate
C20_Witness ==
    /\ agent.kind = "EpsilonGreedyAgent"
    /\ agent.epsilon = One
    /\ pc = "running"
    /\ Len(pulled) >= 2
    /\ pulled[1] = 0
    /\ reward_list[1] > 0
    /\ pulled[2] = 1

====
